---- MODULE Spec2Model ----
(***************************************************************************)
(* IOU tracker: the record store (utils/storage.ts), the reminder manager  *)
(* (utils/reminders.ts), the screens that drive them, the category         *)
(* manager (utils/categories.ts), the ad service (utils/ads.ts) with the   *)
(* ad-free purchase, the root layout with the lock screen, the add form    *)
(* and the CSV export.                                                     *)
(*                                                                         *)
(* Time is counted in minutes of local time since a local midnight; a Date *)
(* is a number.  An absent optional field (undefined) is NoDate.           *)
(*                                                                         *)
(* Every asynchronous function is a task: one step per stretch of code     *)
(* between two awaits.  AsyncStorage and the notification service take a   *)
(* request when it is issued, so a step holds the synchronous code that    *)
(* ends in the request together with the request's effect; the code after  *)
(* the await is the task's next step, and other tasks may run in between.  *)
(***************************************************************************)
EXTENDS Integers, Sequences, FiniteSets, TLC

\* ---------------------------------------------------------------- bounds
\* records ever created by the add form
MaxIOUs == 2
\* asynchronous operations in flight at once
NumTasks == 2
\* notifications ever handed to the notification service
MaxNotifs == 2
\* days the clock may advance
MaxDays == 1
\* handlers (user actions and notification taps) ever started
MaxOps == 4
\* due dates range from yesterday to this many days ahead
MaxDueDays == 4

\* ------------------------------------------------------------- constants
\* 24 * 60 * 60 * 1000 ms
OneDay == 1440
\* 5 * 60 * 1000 ms
FiveMinutes == 5
\* an optional date that is undefined
NoDate == -1
\* the clock at start: 10:00 on day 30
NowStart == 30 * OneDay + 600

Tasks == 1 .. NumTasks

Max(a, b) == IF a >= b THEN a ELSE b

\* ------------------------------------------------------ reminder date
\* notificationTime "HH:mm": split(':') and parseInt give hours and minutes
ParseTime(hm) == <<hm[1], hm[2]>>

\* Date.setHours(h, m, 0, 0): same local day, time of day replaced
SetHours(d, h, m) == (d \div OneDay) * OneDay + h * 60 + m

\* the due-date branch with the test reminderDate < now
DueDateCandidateStrict(iou, reminders, now) ==
  LET reminderDate == iou.dueDate - reminders.dueDateDaysBefore * OneDay
  IN  IF reminderDate < now THEN now + FiveMinutes ELSE reminderDate

\* the due-date branch: dueDate - dueDateDaysBefore days, clamped to
\* now + 5 minutes when reminderDate <= new Date()
DueDateCandidate(iou, reminders, now) ==
  LET reminderDate == iou.dueDate - reminders.dueDateDaysBefore * OneDay
  IN  IF reminderDate <= now THEN now + FiveMinutes ELSE reminderDate

\* the periodic branch counted from createdAt instead of date
PeriodicCandidateFromCreatedAt(iou, reminders) ==
  LET lastReminder == IF iou.lastReminder # NoDate THEN iou.lastReminder
                      ELSE iou.createdAt
  IN  lastReminder + reminders.periodicReminderDays * OneDay

\* the periodic branch: (lastReminder or date) + periodicReminderDays days
PeriodicCandidate(iou, reminders) ==
  LET lastReminder == IF iou.lastReminder # NoDate THEN iou.lastReminder
                      ELSE iou.date
  IN  lastReminder + reminders.periodicReminderDays * OneDay

\* reminderDate before the time of day is set
Candidate(iou, reminders, now) ==
  IF iou.dueDate # NoDate THEN DueDateCandidate(iou, reminders, now)
  ELSE PeriodicCandidate(iou, reminders)

\* reminderDate after setHours(parseInt(hours), parseInt(minutes), 0, 0)
ReminderDate(iou, reminders, now) ==
  LET hm == ParseTime(reminders.notificationTime)
  IN  SetHours(Candidate(iou, reminders, now), hm[1], hm[2])

\* trigger.seconds = Math.max(1, Math.floor((reminderDate - Date.now()) / 1000))
TriggerSeconds(reminderDate, now) == Max(1, (reminderDate - now) * 60)

\* the minute in which a notification scheduled at `now` fires
FireAt(seconds, now) == now + seconds \div 60

\* ------------------------------------------------------------ settings
\* the period the periodic-reminder picker passes (the value in use again)
PeriodicChoices == {7}

\* defaultSettings.reminders of loadSettings
DefaultReminders ==
  [enabled |-> TRUE, dueDateDaysBefore |-> 3, periodicReminderDays |-> 7,
   notificationTime |-> <<9, 0>>]

\* ---------------------------------------------------------------- state
VARIABLES
  ious,       \* AsyncStorage item iou_tracker_ious: the persisted record list
  settings,   \* AsyncStorage item iou_tracker_settings: the reminders part
  registry,   \* notifications the platform holds scheduled (pending)
  delivered,  \* notifications that fired and are shown to the user
  now,        \* the clock
  avail,      \* isNotificationAvailable()
  task,       \* the asynchronous operations in flight
  nextId,     \* source of fresh record ids
  nextNotif,  \* source of fresh notification identifiers
  started,    \* handlers started so far
  calc,       \* one evaluation of the reminder-date computation
  categories,        \* CategoryManager._categories
  initialized,       \* CategoryManager._initialized
  storedCategories,  \* AsyncStorage item @iou_categories
  nextCategory,      \* source of fresh category ids
  outcome,           \* how the last category operation ended
  categoryOps,       \* category operations performed so far
  adFrequencyData,   \* AdService.adFrequencyData
  storedFrequency,   \* AsyncStorage item adFrequencyData
  isInitialized,     \* AdService.isInitialized
  interstitialAd,    \* AdService.interstitialAd: null, loading, loaded, showing
  rewardedAd,        \* AdService.rewardedAd: null, loading, loaded, showing
  adFreeUnlocked,    \* AsyncStorage item adFreeUnlocked
  mobileAds,         \* ads.ts: the native ad module was bound at module load
  running,           \* the app process has gone through its start-up
  adOutcome,         \* what the last call into the ad service returned
  shown,             \* the interstitials that were put on screen
  bannerShown,       \* the last render of AdBanner produced a BannerAd
  security,          \* iou_tracker_settings: pinEnabled, biometricEnabled, pin
  isAuthenticated,   \* RootLayout state
  authRequired,      \* RootLayout state
  isLoading,         \* RootLayout state
  checkPending,      \* an initializeApp run of the effect is still to come
  authScreen,        \* AuthScreen state while it is mounted
  pendingPin,        \* the PIN a setTimeout of handlePinInput will verify
  appState           \* AppState: active or background

iouVars == <<ious, settings, registry, delivered, now, avail, task, nextId,
             nextNotif, started, calc>>

categoryVars == <<categories, initialized, storedCategories, nextCategory,
                  outcome, categoryOps>>

adVars == <<adFrequencyData, storedFrequency, isInitialized, interstitialAd,
            rewardedAd, adFreeUnlocked, mobileAds, running, adOutcome, shown,
            bannerShown>>

authVars == <<security, isAuthenticated, authRequired, isLoading, checkPending,
              authScreen, pendingPin, appState>>

vars == <<iouVars, categoryVars, adVars, authVars>>

IdleTask ==
  [op |-> "idle", pc |-> "idle", id |-> 0, snap |-> <<>>,
   sset |-> DefaultReminders, todo |-> <<>>, at |-> 0, res |-> "none",
   readFailed |-> FALSE, input |-> <<>>]

NoCalc == [done |-> FALSE]

Ids(s) == {s[i].id : i \in 1 .. Len(s)}

\* findIndex: the first index whose record has the id, 0 for -1
FindIndex(s, id) ==
  IF \E i \in 1 .. Len(s) : s[i].id = id
  THEN CHOOSE i \in 1 .. Len(s) :
         s[i].id = id /\ \A j \in 1 .. i - 1 : s[j].id # id
  ELSE 0

\* the item @iou_categories when nothing was stored
NoItem == [present |-> FALSE]

\* no category operation has run
NoOutcome == [op |-> "none", res |-> "none"]

\* the CategoryManager after construction, on a fresh install
InitCategoryManager ==
  /\ categories = <<>>
  /\ initialized = FALSE
  /\ storedCategories = NoItem
  /\ nextCategory = 1
  /\ outcome = NoOutcome
  /\ categoryOps = 0

\* toDateString: the calendar day of a time
DateString(t) == t \div OneDay

\* adFrequencyData as the AdService constructor sets it
InitialFrequency(t) ==
  [lastInterstitial |-> 0, interstitialsToday |-> 0,
   interstitialsSession |-> 0, lastDate |-> DateString(t)]

\* no call into the ad service has returned
NoAdOutcome == [fn |-> "none", res |-> FALSE]

\* no interstitial was put on screen
NoneShown == [last |-> NoDate, session |-> 0, day |-> 0, date |-> 0]

\* ads.ts and purchases.ts loaded on a fresh install, before start-up
InitAdService ==
  /\ adFrequencyData = InitialFrequency(NowStart)
  /\ storedFrequency = NoItem
  /\ isInitialized = FALSE
  /\ interstitialAd = "null"
  /\ rewardedAd = "null"
  /\ adFreeUnlocked = FALSE
  /\ mobileAds = FALSE
  /\ running = FALSE
  /\ adOutcome = NoAdOutcome
  /\ shown = NoneShown
  /\ bannerShown = FALSE

\* the security part of the settings when nothing was stored
NoSecurity == [pinEnabled |-> FALSE, biometricEnabled |-> FALSE, pin |-> <<>>]

\* AuthScreen as its useState calls set it on mount
FreshAuthScreen ==
  [pin |-> <<>>, storedPin |-> <<>>, biometricEnabled |-> FALSE,
   biometricAvailable |-> FALSE, loaded |-> FALSE]

\* no verification is scheduled
NoPin == [pending |-> FALSE]

\* RootLayout on a fresh install, before its effect has run
InitRootLayout ==
  /\ security = NoSecurity
  /\ isAuthenticated = FALSE
  /\ authRequired = FALSE
  /\ isLoading = TRUE
  /\ checkPending = TRUE
  /\ authScreen = FreshAuthScreen
  /\ pendingPin = NoPin
  /\ appState = "active"

\* ---------------------------------------------------------- storage.ts
\* loadIOUs: the stored list; [] when the item is absent and when the read
\* throws (the catch returns [])
LoadIOUs(ok) == IF ok THEN ious ELSE <<>>

\* loadSettings: the stored settings over the defaults; the defaults when
\* the read throws
LoadSettings(ok) == IF ok THEN settings ELSE DefaultReminders

\* the record addIOU builds from the form's values
NewIOU(input) ==
  [id |-> nextId, type |-> input.type, amount |-> input.amount,
   date |-> input.date, dueDate |-> input.dueDate, isSettled |-> FALSE,
   settledDate |-> NoDate, lastReminder |-> NoDate, remindersSent |-> 0,
   createdAt |-> now, updatedAt |-> now]

\* the list without the existing records
AddedListOnlyNew(existingIOUs, newIOU) == <<newIOU>>

\* [...existingIOUs, newIOU]
AddedList(existingIOUs, newIOU) == Append(existingIOUs, newIOU)

\* the values handleSave passes to addIOU (a valid form)
FormInputs ==
  {[type |-> "lent", amount |-> 50, date |-> now - 7 * OneDay,
    dueDate |-> NoDate],
   [type |-> "lent", amount |-> 50, date |-> now, dueDate |-> now + OneDay]}

\* the operation settles: its locals are gone, its caller holds the outcome
Finish(t, res) ==
  [IdleTask EXCEPT !.op = task[t].op, !.pc = "done", !.id = task[t].id,
                   !.res = res, !.readFailed = task[t].readFailed]

\* a handler starts in the first free slot
Free(t) ==
  /\ task[t].op = "idle"
  /\ \A u \in Tasks : u < t => task[u].op # "idle"
  /\ started < MaxOps

\* handleSave -> addIOU: loadIOUs is issued
AddIOULoad(t) ==
  /\ Free(t)
  /\ nextId <= MaxIOUs
  /\ \E input \in FormInputs, ok \in BOOLEAN :
       task' = [task EXCEPT ![t] =
                  [IdleTask EXCEPT !.op = "add", !.pc = "save",
                                   !.input = input, !.snap = LoadIOUs(ok),
                                   !.readFailed = ~ok]]
  /\ started' = started + 1
  /\ UNCHANGED <<ious, settings, registry, delivered, now, avail, nextId,
                 nextNotif, calc,
                 categoryVars, adVars, authVars>>

\* addIOU after the load: newIOU is built and saveIOUs([...existing, newIOU])
\* is issued; a failed write is rethrown
AddIOUSave(t) ==
  /\ task[t].op = "add" /\ task[t].pc = "save"
  /\ \E ok \in BOOLEAN :
       /\ ious' = IF ok THEN AddedList(task[t].snap, NewIOU(task[t].input))
                  ELSE ious
       /\ task' = [task EXCEPT ![t] =
                     [Finish(t, IF ok THEN "ok" ELSE "rejected")
                        EXCEPT !.id = nextId]]
  /\ nextId' = nextId + 1
  /\ UNCHANGED <<settings, registry, delivered, now, avail, nextNotif, started, calc,
                 categoryVars, adVars, authVars>>

\* handleSettleIOU -> settleIOU(id) -> updateIOU(id, {isSettled: true,
\* settledDate: new Date()}): loadIOUs is issued
SettleIOULoad(t) ==
  /\ Free(t)
  /\ \E i \in 1 .. Len(ious), ok \in BOOLEAN :
       /\ ~ious[i].isSettled
       /\ task' = [task EXCEPT ![t] =
                     [IdleTask EXCEPT !.op = "settle", !.pc = "save",
                                      !.id = ious[i].id, !.at = now,
                                      !.snap = LoadIOUs(ok),
                                      !.readFailed = ~ok]]
  /\ started' = started + 1
  /\ UNCHANGED <<ious, settings, registry, delivered, now, avail, nextId,
                 nextNotif, calc,
                 categoryVars, adVars, authVars>>

\* the update of settleIOU without its settledDate
UpdatedWithoutSettledDate(s, index, at) ==
  [s EXCEPT ![index] = [s[index] EXCEPT !.isSettled = TRUE,
                                        !.updatedAt = now]]

\* ious[index] = {...ious[index], ...updates, updatedAt}
Updated(s, index, at) ==
  [s EXCEPT ![index] = [s[index] EXCEPT !.isSettled = TRUE,
                                        !.settledDate = at,
                                        !.updatedAt = now]]

\* updateIOU after the load: nothing is saved when the id is not found
UpdateIOUSave(t) ==
  /\ task[t].op = "settle" /\ task[t].pc = "save"
  /\ LET index == FindIndex(task[t].snap, task[t].id)
     IN  IF index = 0
         THEN /\ task' = [task EXCEPT ![t] = Finish(t, "ok")]
              /\ ious' = ious
         ELSE \E ok \in BOOLEAN :
                /\ ious' = IF ok THEN Updated(task[t].snap, index, task[t].at)
                           ELSE ious
                /\ task' = [task EXCEPT ![t] =
                              Finish(t, IF ok THEN "ok" ELSE "rejected")]
  /\ UNCHANGED <<settings, registry, delivered, now, avail, nextId,
                 nextNotif, started, calc,
                 categoryVars, adVars, authVars>>

\* deleteIOU(id): loadIOUs is issued
DeleteIOULoad(t) ==
  /\ Free(t)
  /\ \E i \in 1 .. Len(ious), ok \in BOOLEAN :
       task' = [task EXCEPT ![t] =
                  [IdleTask EXCEPT !.op = "delete", !.pc = "save",
                                   !.id = ious[i].id,
                                   !.snap = LoadIOUs(ok),
                                   !.readFailed = ~ok]]
  /\ started' = started + 1
  /\ UNCHANGED <<ious, settings, registry, delivered, now, avail, nextId,
                 nextNotif, calc,
                 categoryVars, adVars, authVars>>

\* deleteIOU after the load: the filtered list is saved
DeleteIOUSave(t) ==
  /\ task[t].op = "delete" /\ task[t].pc = "save"
  /\ \E ok \in BOOLEAN :
       LET Keep(iou) == iou.id # task[t].id
       IN  /\ ious' = IF ok THEN SelectSeq(task[t].snap, Keep) ELSE ious
           /\ task' = [task EXCEPT ![t] =
                         Finish(t, IF ok THEN "ok" ELSE "rejected")]
  /\ UNCHANGED <<settings, registry, delivered, now, avail, nextId,
                 nextNotif, started, calc,
                 categoryVars, adVars, authVars>>

\* the caller's handler ends (its alert is shown)
Return(t) ==
  /\ task[t].pc = "done"
  /\ task' = [task EXCEPT ![t] = IdleTask]
  /\ UNCHANGED <<ious, settings, registry, delivered, now, avail, nextId,
                 nextNotif, started, calc,
                 categoryVars, adVars, authVars>>

\* --------------------------------------------------------- reminders.ts
\* the availability test left out
IsNotificationAvailableAlways == TRUE

\* isNotificationAvailable(): !isExpoGoEnvironment && Notifications &&
\* Platform.OS !== 'web'
IsNotificationAvailable == avail

\* `iou-reminder-${iou.id}`
NotificationId(iouId) == <<"iou-reminder", iouId>>

\* the identifier of a scheduled request: the request scheduleIOUReminder
\* builds has content and trigger only, so the service generates one
RequestIdentifier(iouId) == <<"uuid", nextNotif>>

\* Notifications.cancelScheduledNotificationAsync(identifier)
Cancelled(reg, identifier) == {n \in reg : n.identifier # identifier}

\* Notifications.scheduleNotificationAsync(request): a request with the
\* identifier of a pending one replaces it
Scheduled(reg, n) == Cancelled(reg, n.identifier) \cup {n}

\* cancelIOUReminder(iouId)
CancelIOUReminder(reg, iouId) ==
  IF ~IsNotificationAvailable THEN reg
  ELSE Cancelled(reg, NotificationId(iouId))

\* the request scheduleIOUReminder hands to the service
Request(iou, reminders) ==
  LET reminderDate == ReminderDate(iou, reminders, now)
      seconds == TriggerSeconds(reminderDate, now)
  IN  [identifier |-> RequestIdentifier(iou.id), iouId |-> iou.id,
       reminderDate |-> reminderDate, seconds |-> seconds,
       fireAt |-> FireAt(seconds, now)]

\* the enabled test left out
RemindersEnabledIgnored(reminders) == TRUE

\* if (!reminders?.enabled) return null
RemindersEnabled(reminders) == reminders.enabled

\* scheduleIOUReminder from the cancel's await on: the date is computed and
\* the request is scheduled, unless the service is unavailable or throws
ScheduleIOUReminder(t) ==
  /\ task[t].pc = "sched"
  /\ LET iou == Head(task[t].todo)
         rest == Tail(task[t].todo)
         after == IF rest = <<>> THEN Finish(t, "ok")
                  ELSE [task[t] EXCEPT !.pc = "next"]
     IN  /\ task' = [task EXCEPT ![t] = [after EXCEPT !.todo = rest]]
         /\ IF ~IsNotificationAvailable
            THEN UNCHANGED <<registry, nextNotif>>
            ELSE /\ nextNotif <= MaxNotifs
                 /\ \E ok \in BOOLEAN :
                      IF ok
                      THEN /\ registry' =
                                Scheduled(registry, Request(iou, task[t].sset))
                           /\ nextNotif' = nextNotif + 1
                      ELSE UNCHANGED <<registry, nextNotif>>
  /\ UNCHANGED <<ious, settings, delivered, now, avail, nextId, started, calc,
                 categoryVars, adVars, authVars>>

\* scheduleAllReminders: loadIOUs and loadSettings are issued together
ScheduleAllLoad(t) ==
  /\ task[t].op = "setting" /\ task[t].pc = "load"
  /\ \E okI \in BOOLEAN, okS \in BOOLEAN :
       task' = [task EXCEPT ![t] =
                  [task[t] EXCEPT !.pc = "begin", !.snap = LoadIOUs(okI),
                                  !.sset = LoadSettings(okS)]]
  /\ UNCHANGED <<ious, settings, registry, delivered, now, avail, nextId,
                 nextNotif, started, calc,
                 categoryVars, adVars, authVars>>

\* scheduleIOUReminder up to its first await: null when the policy is
\* disabled, else cancelIOUReminder is called for the record.  (Inside the
\* loop of scheduleAllReminders the policy is the one already tested there.)
EnterScheduleIOUReminder(t, todo) ==
  IF ~RemindersEnabled(task[t].sset)
  THEN /\ task' = [task EXCEPT ![t] = Finish(t, "disabled")]
       /\ registry' = registry
  ELSE /\ task' = [task EXCEPT ![t] =
                     [task[t] EXCEPT !.pc = "sched", !.snap = <<>>,
                                     !.todo = todo]]
       /\ registry' = CancelIOUReminder(registry, todo[1].id)

\* scheduleAllReminders after the load: return when disabled, else filter
\* and enter scheduleIOUReminder for the first active record
ScheduleAllBegin(t) ==
  /\ task[t].op = "setting" /\ task[t].pc = "begin"
  /\ LET Active(iou) == ~iou.isSettled
         activeIOUs == SelectSeq(task[t].snap, Active)
     IN  IF ~task[t].sset.enabled
         THEN /\ task' = [task EXCEPT ![t] = Finish(t, "disabled")]
              /\ registry' = registry
         ELSE IF activeIOUs = <<>>
         THEN /\ task' = [task EXCEPT ![t] = Finish(t, "ok")]
              /\ registry' = registry
         ELSE EnterScheduleIOUReminder(t, activeIOUs)
  /\ UNCHANGED <<ious, settings, delivered, now, avail, nextId, nextNotif,
                 started, calc,
                 categoryVars, adVars, authVars>>

\* the loop's next record: scheduleIOUReminder is entered
ScheduleAllNext(t) ==
  /\ task[t].pc = "next"
  /\ EnterScheduleIOUReminder(t, task[t].todo)
  /\ UNCHANGED <<ious, settings, delivered, now, avail, nextId, nextNotif,
                 started, calc,
                 categoryVars, adVars, authVars>>

\* cancelAllReminders
CancelAllReminders(t) ==
  /\ task[t].op = "setting" /\ task[t].pc = "cancelAll"
  /\ task' = [task EXCEPT ![t] = Finish(t, "ok")]
  /\ IF ~IsNotificationAvailable THEN registry' = registry
     ELSE \E ok \in BOOLEAN : registry' = IF ok THEN {} ELSE registry
  /\ UNCHANGED <<ious, settings, delivered, now, avail, nextId, nextNotif,
                 started, calc,
                 categoryVars, adVars, authVars>>

\* the new value of a reminder setting the settings screen can pass
SettingChanges ==
  {<<"enabled", ~settings.enabled>>}
    \cup IF settings.enabled
         THEN {<<"periodicReminderDays", d>> : d \in PeriodicChoices}
         ELSE {}

\* handleReminderSettingChange(key, value): updateSettings saves the
\* settings (a failed save is caught there), then the reminders are
\* scheduled again, or all cancelled when reminders were switched off
HandleReminderSettingChange(t) ==
  /\ Free(t)
  /\ \E kv \in SettingChanges, ok \in BOOLEAN :
       /\ settings' = IF ok THEN [settings EXCEPT ![kv[1]] = kv[2]]
                      ELSE settings
       /\ task' = [task EXCEPT ![t] =
                     [IdleTask EXCEPT !.op = "setting",
                        !.pc = IF kv[1] = "enabled" /\ kv[2] = FALSE
                               THEN "cancelAll" ELSE "load"]]
  /\ started' = started + 1
  /\ UNCHANGED <<ious, registry, delivered, now, avail, nextId, nextNotif,
                 calc,
                 categoryVars, adVars, authVars>>

\* the listener: handleNotificationResponse for a tapped notification;
\* updateLastReminderSent issues loadIOUs
HandleNotificationResponse(t) ==
  /\ Free(t)
  /\ IsNotificationAvailable
  /\ \E n \in delivered, ok \in BOOLEAN :
       /\ delivered' = delivered \ {n}
       /\ task' = [task EXCEPT ![t] =
                     [IdleTask EXCEPT !.op = "ack", !.pc = "ackSave",
                                      !.id = n.iouId,
                                      !.snap = LoadIOUs(ok),
                                      !.readFailed = ~ok]]
  /\ started' = started + 1
  /\ UNCHANGED <<ious, settings, registry, now, avail, nextId, nextNotif,
                 calc,
                 categoryVars, adVars, authVars>>

\* ious.map(iou => iou.id === iouId ? {...iou, lastReminder, remindersSent}
\* : iou)
WithReminderSent(s, iouId) ==
  [i \in 1 .. Len(s) |->
     IF s[i].id = iouId
     THEN [s[i] EXCEPT !.lastReminder = now,
                       !.remindersSent = s[i].remindersSent + 1]
     ELSE s[i]]

\* updateLastReminderSent after the load: the mapped list is saved; a failed
\* save is caught and logged
UpdateLastReminderSent(t) ==
  /\ task[t].op = "ack" /\ task[t].pc = "ackSave"
  /\ \E ok \in BOOLEAN :
       ious' = IF ok THEN WithReminderSent(task[t].snap, task[t].id)
               ELSE ious
  /\ task' = [task EXCEPT ![t] =
                [task[t] EXCEPT !.pc = "reLoad", !.snap = <<>>]]
  /\ UNCHANGED <<settings, registry, delivered, now, avail, nextId,
                 nextNotif, started, calc,
                 categoryVars, adVars, authVars>>

\* rescheduleNextReminder: loadIOUs and loadSettings are issued together
RescheduleLoad(t) ==
  /\ task[t].op = "ack" /\ task[t].pc = "reLoad"
  /\ \E okI \in BOOLEAN, okS \in BOOLEAN :
       task' = [task EXCEPT ![t] =
                  [task[t] EXCEPT !.pc = "reCheck", !.snap = LoadIOUs(okI),
                                  !.sset = LoadSettings(okS)]]
  /\ UNCHANGED <<ious, settings, registry, delivered, now, avail, nextId,
                 nextNotif, started, calc,
                 categoryVars, adVars, authVars>>

\* rescheduleNextReminder after the load: only an unsettled record without
\* a due date enters scheduleIOUReminder (its enabled test and its cancel)
RescheduleNextReminder(t) ==
  /\ task[t].op = "ack" /\ task[t].pc = "reCheck"
  /\ LET index == FindIndex(task[t].snap, task[t].id)
         iou == task[t].snap[index]
     IN  IF index = 0 \/ iou.isSettled \/ iou.dueDate # NoDate
         THEN /\ task' = [task EXCEPT ![t] = Finish(t, "ok")]
              /\ registry' = registry
         ELSE EnterScheduleIOUReminder(t, <<iou>>)
  /\ UNCHANGED <<ious, settings, delivered, now, avail, nextId, nextNotif,
                 started, calc,
                 categoryVars, adVars, authVars>>

\* --------------------------------------------------------- environment
\* a pending notification whose delay has run out is shown
Fire ==
  /\ \E n \in registry :
       /\ n.fireAt <= now
       /\ registry' = registry \ {n}
       /\ delivered' = delivered \cup {n}
  /\ UNCHANGED <<ious, settings, now, avail, task, nextId, nextNotif, started, calc,
                 categoryVars, adVars, authVars>>

\* a day passes; an operation in flight takes no such time
Elapse ==
  /\ \A t \in Tasks : task[t].op = "idle"
  /\ now + OneDay <= NowStart + MaxDays * OneDay
  /\ now' = now + OneDay
  /\ UNCHANGED <<ious, settings, registry, delivered, avail, task, nextId,
                 nextNotif, started, calc,
                 categoryVars, adVars, authVars>>

Init ==
  /\ InitCategoryManager
  /\ InitAdService
  /\ InitRootLayout
  /\ ious = <<>>
  /\ settings = DefaultReminders
  /\ registry = {}
  /\ delivered = {}
  /\ now = NowStart
  /\ avail \in BOOLEAN
  /\ task = [t \in Tasks |-> IdleTask]
  /\ nextId = 1
  /\ nextNotif = 1
  /\ started = 0
  /\ calc = NoCalc

Next ==
  \/ \E t \in Tasks : AddIOULoad(t)
  \/ \E t \in Tasks : AddIOUSave(t)
  \/ \E t \in Tasks : SettleIOULoad(t)
  \/ \E t \in Tasks : UpdateIOUSave(t)
  \/ \E t \in Tasks : DeleteIOULoad(t)
  \/ \E t \in Tasks : DeleteIOUSave(t)
  \/ \E t \in Tasks : HandleReminderSettingChange(t)
  \/ \E t \in Tasks : ScheduleAllLoad(t)
  \/ \E t \in Tasks : ScheduleAllBegin(t)
  \/ \E t \in Tasks : ScheduleAllNext(t)
  \/ \E t \in Tasks : ScheduleIOUReminder(t)
  \/ \E t \in Tasks : CancelAllReminders(t)
  \/ \E t \in Tasks : HandleNotificationResponse(t)
  \/ \E t \in Tasks : UpdateLastReminderSent(t)
  \/ \E t \in Tasks : RescheduleLoad(t)
  \/ \E t \in Tasks : RescheduleNextReminder(t)
  \/ \E t \in Tasks : Return(t)
  \/ Fire
  \/ Elapse

Spec == Init /\ [][Next]_vars

\* ------------------------------------------- the reminder date alone
\* the instants at which the computation is evaluated: day 30 at 00:00,
\* 08:58, 09:00, 10:00 and 23:57
NowChoices == {43200, 43738, 43740, 43800, 44637}

DaysBeforeChoices == {1, 3}
PeriodChoices == {1, 7}
TimeChoices == {<<7, 0>>, <<9, 0>>, <<20, 0>>}

\* records as scheduleIOUReminder may receive them at instant n
CalcIOUs(n) ==
  {[id |-> 1, type |-> "lent", amount |-> 50, date |-> n - OneDay - 30,
    dueDate |-> n + j * OneDay + delta, isSettled |-> FALSE,
    settledDate |-> NoDate, lastReminder |-> NoDate, remindersSent |-> 0,
    createdAt |-> n - 30, updatedAt |-> n - 30] :
      j \in -1 .. MaxDueDays, delta \in {-60, 0, 60}}
  \cup
  {[id |-> 1, type |-> "lent", amount |-> 50, date |-> n - OneDay - 30,
    dueDate |-> NoDate, isSettled |-> FALSE, settledDate |-> NoDate,
    lastReminder |-> l, remindersSent |-> IF l = NoDate THEN 0 ELSE 1,
    createdAt |-> n - 30, updatedAt |-> n - 30] :
      l \in {NoDate, n - 10, n - OneDay + 60}}

InitDate ==
  /\ InitCategoryManager
  /\ InitAdService
  /\ InitRootLayout
  /\ ious = <<>>
  /\ settings = DefaultReminders
  /\ registry = {}
  /\ delivered = {}
  /\ now = NowStart
  /\ avail = TRUE
  /\ task = [t \in Tasks |-> IdleTask]
  /\ nextId = 1
  /\ nextNotif = 1
  /\ started = 0
  /\ \E n \in NowChoices, k \in DaysBeforeChoices, p \in PeriodChoices,
        hm \in TimeChoices :
       \E iou \in CalcIOUs(n) :
         calc = [done |-> FALSE, now |-> n, iou |-> iou,
                 reminders |-> [enabled |-> TRUE, dueDateDaysBefore |-> k,
                                periodicReminderDays |-> p,
                                notificationTime |-> hm]]

\* lines 94-137 of scheduleIOUReminder on the inputs of calc
ComputeReminderDate ==
  /\ ~calc.done
  /\ LET reminderDate == ReminderDate(calc.iou, calc.reminders, calc.now)
     IN  calc' = [done |-> TRUE, now |-> calc.now, iou |-> calc.iou,
                  reminders |-> calc.reminders,
                  candidate |-> Candidate(calc.iou, calc.reminders, calc.now),
                  reminderDate |-> reminderDate,
                  seconds |-> TriggerSeconds(reminderDate, calc.now)]
  /\ UNCHANGED <<ious, settings, registry, delivered, now, avail, task,
                 nextId, nextNotif, started,
                 categoryVars, adVars, authVars>>

NextDate == ComputeReminderDate

SpecDate == InitDate /\ [][NextDate]_vars

\* ------------------------------------------------------- the dashboard
\* records in a drawn record list
MaxList == 3

\* getUpcomingReminders: the reminderDate of the loop body, dueDate -
\* dueDateDaysBefore days or (lastReminder or date) + periodicReminderDays
\* days
UpcomingReminderDate(iou, reminders) ==
  IF iou.dueDate # NoDate
  THEN iou.dueDate - reminders.dueDateDaysBefore * OneDay
  ELSE LET lastReminder == IF iou.lastReminder # NoDate
                           THEN iou.lastReminder ELSE iou.date
       IN  lastReminder + reminders.periodicReminderDays * OneDay

\* the window test with the lower end left out
InWindowOpen(reminderDate, n) ==
  reminderDate > n /\ reminderDate <= n + 7 * OneDay

\* reminderDate >= now && reminderDate <= next7Days
InWindow(reminderDate, n) ==
  reminderDate >= n /\ reminderDate <= n + 7 * OneDay

\* the pairs {iou, reminderDate} the loop computes, one per unsettled record
Computed(snap, reminders) ==
  LET Active(iou) == ~iou.isSettled
      active == SelectSeq(snap, Active)
  IN  [i \in 1 .. Len(active) |->
         [iou |-> active[i],
          reminderDate |-> UpcomingReminderDate(active[i], reminders)]]

\* an entry put behind the entries that do not compare greater
InsertByReminderDate(sorted, e) ==
  LET k == Cardinality({i \in 1 .. Len(sorted) :
                          sorted[i].reminderDate <= e.reminderDate})
  IN  SubSeq(sorted, 1, k) \o <<e>> \o SubSeq(sorted, k + 1, Len(sorted))

\* sort((a, b) => a.reminderDate.getTime() - b.reminderDate.getTime()):
\* ascending, entries that compare equal keep their order
RECURSIVE SortByReminderDate(_)
SortByReminderDate(s) ==
  IF s = <<>> THEN <<>>
  ELSE InsertByReminderDate(SortByReminderDate(SubSeq(s, 1, Len(s) - 1)),
                            s[Len(s)])

\* what getUpcomingReminders returns for the loaded list and settings
UpcomingReminders(snap, reminders, n) ==
  IF ~reminders.enabled THEN <<>>
  ELSE LET Upcoming(e) == InWindow(e.reminderDate, n)
       IN  SortByReminderDate(SelectSeq(Computed(snap, reminders), Upcoming))

\* reduce((sum, iou) => sum + iou.amount, 0)
RECURSIVE SumAmount(_)
SumAmount(s) ==
  IF s = <<>> THEN 0
  ELSE SumAmount(SubSeq(s, 1, Len(s) - 1)) + s[Len(s)].amount

\* the totals taken over every record, settled ones included
CalculateSummaryOfAll(L) ==
  LET Lent(iou) == iou.type = "lent"
      Borrowed(iou) == iou.type = "borrowed"
      totalOwed == SumAmount(SelectSeq(L, Lent))
      totalOwing == SumAmount(SelectSeq(L, Borrowed))
  IN  [totalOwed |-> totalOwed, totalOwing |-> totalOwing,
       netBalance |-> totalOwed - totalOwing]

\* calculateSummary(ious)
CalculateSummary(L) ==
  LET Active(iou) == ~iou.isSettled
      Lent(iou) == iou.type = "lent"
      Borrowed(iou) == iou.type = "borrowed"
      activeIOUs == SelectSeq(L, Active)
      totalOwed == SumAmount(SelectSeq(activeIOUs, Lent))
      totalOwing == SumAmount(SelectSeq(activeIOUs, Borrowed))
  IN  [totalOwed |-> totalOwed, totalOwing |-> totalOwing,
       netBalance |-> totalOwed - totalOwing]

\* the shapes of the records a stored list may hold at instant n
DashShapes(n) ==
  LET Rec(type, amount, date, dueDate, lastReminder, settledDate) ==
        [id |-> 0, type |-> type, amount |-> amount, date |-> date,
         dueDate |-> dueDate, isSettled |-> settledDate # NoDate,
         settledDate |-> settledDate, lastReminder |-> lastReminder,
         remindersSent |-> IF lastReminder = NoDate THEN 0 ELSE 1,
         createdAt |-> n - 10 * OneDay, updatedAt |-> n - 10 * OneDay]
  IN  {Rec("lent", 50, n - 7 * OneDay, NoDate, NoDate, NoDate),
       Rec("borrowed", 20, n - 9 * OneDay, NoDate, n, NoDate),
       Rec("lent", 100, n - 5 * OneDay, NoDate, NoDate, n - 60),
       Rec("borrowed", 30, n - OneDay, n + 5 * OneDay, NoDate, NoDate),
       Rec("lent", 50, n - OneDay, n + OneDay, NoDate, NoDate),
       Rec("lent", 10, n - 7 * OneDay - 1, NoDate, NoDate, NoDate),
       Rec("borrowed", 10, n + 1, NoDate, NoDate, NoDate)}

\* the stored lists: up to MaxList records, ids by position
DashLists(n) ==
  UNION {{[i \in 1 .. len |-> [f[i] EXCEPT !.id = i]] :
            f \in [1 .. len -> DashShapes(n)]} : len \in 0 .. MaxList}

InitDashboard ==
  /\ InitCategoryManager
  /\ InitAdService
  /\ InitRootLayout
  /\ ious \in DashLists(NowStart)
  /\ \E e \in BOOLEAN, k \in DaysBeforeChoices, p \in PeriodChoices :
       settings = [enabled |-> e, dueDateDaysBefore |-> k,
                   periodicReminderDays |-> p, notificationTime |-> <<9, 0>>]
  /\ registry = {}
  /\ delivered = {}
  /\ now = NowStart
  /\ avail = TRUE
  /\ task = [t \in Tasks |-> IdleTask]
  /\ nextId = MaxList + 1
  /\ nextNotif = 1
  /\ started = 0
  /\ calc = NoCalc

\* getUpcomingReminders: loadIOUs and loadSettings are issued together, the
\* rest runs without an await
GetUpcomingReminders ==
  /\ ~calc.done
  /\ \E okI \in BOOLEAN, okS \in BOOLEAN :
       LET snap == LoadIOUs(okI)
           sset == LoadSettings(okS)
       IN  calc' = [done |-> TRUE, fn |-> "getUpcomingReminders",
                    snap |-> snap, sset |-> sset,
                    computed |-> Computed(snap, sset),
                    result |-> UpcomingReminders(snap, sset, now)]
  /\ UNCHANGED <<ious, settings, registry, delivered, now, avail, task,
                 nextId, nextNotif, started,
                 categoryVars, adVars, authVars>>

\* calculateSummary applied to the record list
ApplyCalculateSummary ==
  /\ ~calc.done
  /\ calc' = [done |-> TRUE, fn |-> "calculateSummary", list |-> ious,
              summary |-> CalculateSummary(ious)]
  /\ UNCHANGED <<ious, settings, registry, delivered, now, avail, task,
                 nextId, nextNotif, started,
                 categoryVars, adVars, authVars>>

NextDashboard ==
  \/ GetUpcomingReminders
  \/ ApplyCalculateSummary

SpecDashboard == InitDashboard /\ [][NextDashboard]_vars

\* ------------------------------------------------- the category manager
\* A name is the sequence of its characters.  An operation of the manager is
\* one step: the operations are run one after another, each to its end.

\* categories ever created
MaxCategories == 2
\* category operations ever performed
MaxCategoryOps == 3

General == <<"G", "e", "n", "e", "r", "a", "l">>
Personal == <<"P", "e", "r", "s", "o", "n", "a", "l">>
Business == <<"B", "u", "s", "i", "n", "e", "s", "s">>
Family == <<"F", "a", "m", "i", "l", "y">>

\* DEFAULT_CATEGORIES
DEFAULT_CATEGORIES ==
  <<[id |-> <<"general">>, name |-> General, color |-> "#007AFF",
     isDefault |-> TRUE],
    [id |-> <<"personal">>, name |-> Personal, color |-> "#34C759",
     isDefault |-> TRUE],
    [id |-> <<"business">>, name |-> Business, color |-> "#FF9500",
     isDefault |-> TRUE],
    [id |-> <<"family">>, name |-> Family, color |-> "#FF2D92",
     isDefault |-> TRUE]>>

\* the lower-case letter of each upper-case letter in use
LowerOf == [G |-> "g", P |-> "p", B |-> "b", F |-> "f", T |-> "t"]

\* String.prototype.toLowerCase
ToLowerCase(s) ==
  [i \in 1 .. Len(s) |->
     IF s[i] \in DOMAIN LowerOf THEN LowerOf[s[i]] ELSE s[i]]

RECURSIVE TrimStart(_)
TrimStart(s) ==
  IF s # <<>> /\ Head(s) = " " THEN TrimStart(Tail(s)) ELSE s

RECURSIVE TrimEnd(_)
TrimEnd(s) ==
  IF s # <<>> /\ s[Len(s)] = " " THEN TrimEnd(SubSeq(s, 1, Len(s) - 1))
  ELSE s

\* String.prototype.trim
Trim(s) == TrimEnd(TrimStart(s))

\* cat.name.toLowerCase() === name.toLowerCase()
SameName(a, b) == ToLowerCase(a) = ToLowerCase(b)

\* updates.name / updates.color that are undefined
NoName == <<>>
NoColor == "undefined"

\* the names passed to createCategory and updateCategory
NameInputs ==
  {<<"T", "r", "i", "p">>, <<"t", "r", "i", "p">>,
   <<" ", "t", "r", "i", "p">>, <<"g", "e", "n", "e", "r", "a", "l">>,
   General \o <<" ">>, <<" ">>}

\* the updates passed to updateCategory
UpdateInputs ==
  {[name |-> n, color |-> NoColor] : n \in NameInputs}
    \cup {[name |-> NoName, color |-> "#FF3B30"]}

\* `category_${Date.now()}_${Math.random()...}`
CategoryId(n) == <<"category", n>>

\* an id no category has
MissingId == CategoryId(0)

CategoryIds(s) == {s[i].id : i \in 1 .. Len(s)}

Stored(list) == [present |-> TRUE, list |-> list]

\* saveCategories: the whole in-memory list replaces the item; a failed
\* write leaves the item and is rethrown
SaveCategories(list, item, ok) == IF ok THEN Stored(list) ELSE item

\* initializeCategories: the in-memory list and the item it leaves.  The
\* stored list is taken when there is one; on a fresh install the defaults
\* are taken and saved; when the read or that save throws the defaults are
\* taken
AfterInitialize(okRead, okSeed) ==
  IF initialized THEN [c |-> categories, s |-> storedCategories]
  ELSE IF okRead /\ storedCategories.present
  THEN [c |-> storedCategories.list, s |-> storedCategories]
  ELSE IF okRead
  THEN [c |-> DEFAULT_CATEGORIES,
        s |-> SaveCategories(DEFAULT_CATEGORIES, storedCategories, okSeed)]
  ELSE [c |-> DEFAULT_CATEGORIES, s |-> storedCategories]

CategoryBudget == categoryOps < MaxCategoryOps

\* whether the storage requests of initializeCategories succeed; it issues
\* none once _initialized is set
InitializeOutcomes == IF initialized THEN {TRUE} ELSE BOOLEAN

\* getCategories -> initializeCategories
GetCategories ==
  /\ CategoryBudget
  /\ \E okRead \in InitializeOutcomes, okSeed \in InitializeOutcomes :
       LET init == AfterInitialize(okRead, okSeed)
       IN  /\ categories' = init.c
           /\ storedCategories' = init.s
  /\ initialized' = TRUE
  /\ outcome' = [op |-> "getCategories", res |-> "ok"]
  /\ categoryOps' = categoryOps + 1
  /\ UNCHANGED <<iouVars, adVars, authVars, nextCategory>>

\* createCategory(name): (hasProFeature(CUSTOM_CATEGORIES) is always true)
CreateCategory ==
  /\ CategoryBudget
  /\ nextCategory <= MaxCategories
  /\ \E name \in NameInputs, okRead \in InitializeOutcomes,
        okSeed \in InitializeOutcomes, okSave \in BOOLEAN :
       LET init == AfterInitialize(okRead, okSeed)
           newCategory == [id |-> CategoryId(nextCategory),
                           name |-> Trim(name), color |-> "#007AFF",
                           isDefault |-> FALSE]
           pushed == Append(init.c, newCategory)
       IN  IF \E i \in 1 .. Len(init.c) : SameName(init.c[i].name, name)
           THEN /\ categories' = init.c
                /\ storedCategories' = init.s
                /\ nextCategory' = nextCategory
                /\ outcome' = [op |-> "createCategory", name |-> name,
                               res |-> "Category name already exists"]
           ELSE /\ categories' = pushed
                /\ storedCategories' = SaveCategories(pushed, init.s, okSave)
                /\ nextCategory' = nextCategory + 1
                /\ outcome' = [op |-> "createCategory", name |-> name,
                               res |-> IF okSave THEN "ok"
                                       ELSE "storage failure"]
  /\ initialized' = TRUE
  /\ categoryOps' = categoryOps + 1
  /\ UNCHANGED <<iouVars, adVars, authVars>>

\* {...category, ...updates, name: updates.name?.trim() || category.name}
UpdatedCategory(category, updates) ==
  [category EXCEPT
     !.color = IF updates.color # NoColor THEN updates.color ELSE @,
     !.name = IF Trim(updates.name) # <<>> THEN Trim(updates.name) ELSE @]

\* findIndex(cat => cat.id === id), 0 for -1
CategoryIndex(s, id) ==
  IF \E i \in 1 .. Len(s) : s[i].id = id
  THEN CHOOSE i \in 1 .. Len(s) :
         s[i].id = id /\ \A j \in 1 .. i - 1 : s[j].id # id
  ELSE 0

\* updateCategory(id, updates)
UpdateCategory ==
  /\ CategoryBudget
  /\ \E okRead \in InitializeOutcomes, okSeed \in InitializeOutcomes,
        okSave \in BOOLEAN, updates \in UpdateInputs :
       LET init == AfterInitialize(okRead, okSeed)
       IN  \E id \in CategoryIds(init.c) \cup {MissingId} :
             LET categoryIndex == CategoryIndex(init.c, id)
                 category == init.c[categoryIndex]
                 list == [init.c EXCEPT ![categoryIndex] =
                            UpdatedCategory(category, updates)]
                 Call(res) == [op |-> "updateCategory", id |-> id,
                               updates |-> updates, res |-> res]
             IN  IF categoryIndex = 0
                 THEN /\ categories' = init.c
                      /\ storedCategories' = init.s
                      /\ outcome' = Call("Category not found")
                 ELSE IF /\ updates.name # NoName
                         /\ updates.name # category.name
                         /\ \E i \in 1 .. Len(init.c) :
                              /\ SameName(init.c[i].name, updates.name)
                              /\ init.c[i].id # id
                 THEN /\ categories' = init.c
                      /\ storedCategories' = init.s
                      /\ outcome' = Call("Category name already exists")
                 ELSE /\ categories' = list
                      /\ storedCategories' =
                           SaveCategories(list, init.s, okSave)
                      /\ outcome' = Call(IF okSave THEN "ok"
                                         ELSE "storage failure")
  /\ initialized' = TRUE
  /\ categoryOps' = categoryOps + 1
  /\ UNCHANGED <<iouVars, adVars, authVars, nextCategory>>

\* a test that protects no category
ProtectedDefaultNever(category) == FALSE

\* if (category.isDefault) throw new Error('Cannot delete default category')
ProtectedDefault(category) == category.isDefault

\* deleteCategory(id)
DeleteCategory ==
  /\ CategoryBudget
  /\ \E okRead \in InitializeOutcomes, okSeed \in InitializeOutcomes,
        okSave \in BOOLEAN :
       LET init == AfterInitialize(okRead, okSeed)
       IN  \E id \in CategoryIds(init.c) \cup {MissingId} :
             LET categoryIndex == CategoryIndex(init.c, id)
                 Keep(cat) == cat.id # id
                 list == SelectSeq(init.c, Keep)
                 Call(res) == [op |-> "deleteCategory", id |-> id,
                               res |-> res]
             IN  IF categoryIndex = 0
                 THEN /\ categories' = init.c
                      /\ storedCategories' = init.s
                      /\ outcome' = Call("Category not found")
                 ELSE IF ProtectedDefault(init.c[categoryIndex])
                 THEN /\ categories' = init.c
                      /\ storedCategories' = init.s
                      /\ outcome' = Call("Cannot delete default category")
                 ELSE /\ categories' = list
                      /\ storedCategories' =
                           SaveCategories(list, init.s, okSave)
                      /\ outcome' = Call(IF okSave THEN "ok"
                                         ELSE "storage failure")
  /\ initialized' = TRUE
  /\ categoryOps' = categoryOps + 1
  /\ UNCHANGED <<iouVars, adVars, authVars, nextCategory>>

\* resetToDefaults: _initialized is left as it is
ResetToDefaults ==
  /\ CategoryBudget
  /\ categories' = DEFAULT_CATEGORIES
  /\ \E okSave \in BOOLEAN :
       /\ storedCategories' =
            SaveCategories(DEFAULT_CATEGORIES, storedCategories, okSave)
       /\ outcome' = [op |-> "resetToDefaults",
                      res |-> IF okSave THEN "ok" ELSE "storage failure"]
  /\ categoryOps' = categoryOps + 1
  /\ UNCHANGED <<iouVars, adVars, authVars, initialized, nextCategory>>

\* the app is started again: a new CategoryManager, the item is kept
Restart ==
  /\ initialized
  /\ categories' = <<>>
  /\ initialized' = FALSE
  /\ outcome' = NoOutcome
  /\ UNCHANGED <<iouVars, adVars, authVars, storedCategories, nextCategory, categoryOps>>

NextCategory ==
  \/ GetCategories
  \/ CreateCategory
  \/ UpdateCategory
  \/ DeleteCategory
  \/ ResetToDefaults
  \/ Restart

\* a fresh install
InitCategory ==
  /\ InitCategoryManager
  /\ InitAdService
  /\ InitRootLayout
  /\ ious = <<>>
  /\ settings = DefaultReminders
  /\ registry = {}
  /\ delivered = {}
  /\ now = NowStart
  /\ avail = TRUE
  /\ task = [t \in Tasks |-> IdleTask]
  /\ nextId = 1
  /\ nextNotif = 1
  /\ started = 0
  /\ calc = NoCalc

SpecCategory == InitCategory /\ [][NextCategory]_vars

\* -------------------------------------------------------------- ads.ts
\* AD_FREQUENCY, the interval in minutes
INTERSTITIAL_MIN_INTERVAL == 5
MAX_INTERSTITIALS_PER_SESSION == 3
MAX_INTERSTITIALS_PER_DAY == 8

\* minutes of a day the ad clock runs through
MaxAdMinutes == 10

\* day rollovers
MaxAdDays == 1

\* interstitials put on screen on one day
MaxShown == 9

\* interstitials of an earlier run of the same day
EarlierToday == {0, 6}

\* steps of the ad clock, in minutes
AdTicks == {5}

\* PurchaseManager.isAdFreeUnlocked: the stored flag; false when nothing is
\* stored and when the read throws
IsAdFreeUnlocked(ok) == ok /\ adFreeUnlocked

\* NATIVE_ADS_AVAILABLE holds the Promise isNativeModuleAvailable() returned,
\* so every test of it sees a truthy object
NATIVE_ADS_AVAILABLE == TRUE

\* getBannerAdUnitId
GetBannerAdUnitId == IF ~NATIVE_ADS_AVAILABLE THEN "" ELSE "BANNER"

\* loadAdFrequencyData: the stored fields over the current ones; the current
\* ones when nothing is stored and when the read throws
LoadAdFrequencyData(ok) ==
  IF ok /\ storedFrequency.present THEN storedFrequency.data
  ELSE adFrequencyData

\* saveAdFrequencyData: a failed write is logged and dropped
SaveAdFrequencyData(ok, data) ==
  IF ok THEN [present |-> TRUE, data |-> data] ELSE storedFrequency

\* canShowInterstitialAd, the reset of the daily counter on a new day
DayChecked(data, t) ==
  IF data.lastDate # DateString(t)
  THEN [data EXCEPT !.interstitialsToday = 0, !.lastDate = DateString(t)]
  ELSE data

\* canShowInterstitialAd, the three limits
CanShowInterstitialAd(data, t) ==
  /\ ~(t - data.lastInterstitial < INTERSTITIAL_MIN_INTERVAL)
  /\ ~(data.interstitialsToday >= MAX_INTERSTITIALS_PER_DAY)
  /\ ~(data.interstitialsSession >= MAX_INTERSTITIALS_PER_SESSION)

\* the record of the interstitials on screen after one more at time t
Shown(t) ==
  [last |-> t, session |-> shown.session + 1,
   day |-> IF shown.date = DateString(t) THEN shown.day + 1 ELSE 1,
   date |-> DateString(t)]

\* no advertisement covers the screen, so the user can act
NoAdOnScreen == interstitialAd # "showing" /\ rewardedAd # "showing"

\* the process starts: ads.ts is loaded (isNativeModuleAvailable binds the
\* native module unless the purchase flag is read as set) and RootLayout's
\* initializeApp runs AdService.initialize
LaunchAds ==
  /\ ~running
  /\ \E okLoad \in BOOLEAN, okInit \in BOOLEAN, okSdk \in BOOLEAN,
        okFrequency \in BOOLEAN :
       LET bound == ~IsAdFreeUnlocked(okLoad)
           isAdFree == IsAdFreeUnlocked(okInit)
           ready == /\ ~(isInitialized \/ isAdFree \/ ~NATIVE_ADS_AVAILABLE)
                    /\ bound
                    /\ okSdk
       IN  /\ mobileAds' = bound
           /\ isInitialized' = ready
           /\ adFrequencyData' = IF ready THEN LoadAdFrequencyData(okFrequency)
                                 ELSE adFrequencyData
           /\ interstitialAd' = IF ready THEN "loading" ELSE "null"
           /\ rewardedAd' = IF ready THEN "loading" ELSE "null"
  /\ running' = TRUE
  /\ UNCHANGED <<storedFrequency, adFreeUnlocked, adOutcome, shown,
                 bannerShown, iouVars, categoryVars, authVars>>

\* the LOADED event of the interstitial
InterstitialLoaded ==
  /\ interstitialAd = "loading"
  /\ interstitialAd' = "loaded"
  /\ UNCHANGED <<adFrequencyData, storedFrequency, isInitialized, rewardedAd,
                 adFreeUnlocked, mobileAds, running, adOutcome, shown,
                 bannerShown, iouVars, categoryVars, authVars>>

\* the LOADED event of the rewarded ad
RewardedLoaded ==
  /\ rewardedAd = "loading"
  /\ rewardedAd' = "loaded"
  /\ UNCHANGED <<adFrequencyData, storedFrequency, isInitialized,
                 interstitialAd, adFreeUnlocked, mobileAds, running, adOutcome,
                 shown, bannerShown, iouVars, categoryVars, authVars>>

\* showInterstitialAd
ShowInterstitialAd ==
  /\ running
  /\ NoAdOnScreen
  /\ shown.day < MaxShown
  /\ \E okRead \in BOOLEAN, okSave \in BOOLEAN :
       LET isAdFree == IsAdFreeUnlocked(okRead)
           checked == DayChecked(adFrequencyData, now)
       IN  IF ~isInitialized \/ isAdFree \/ interstitialAd = "null"
           THEN /\ adOutcome' = [fn |-> "showInterstitialAd", res |-> FALSE]
                /\ UNCHANGED <<adFrequencyData, storedFrequency,
                               interstitialAd, shown>>
           ELSE /\ adFrequencyData' = checked
                /\ storedFrequency' =
                     IF checked # adFrequencyData
                     THEN SaveAdFrequencyData(okSave, checked)
                     ELSE storedFrequency
                /\ IF /\ CanShowInterstitialAd(checked, now)
                      /\ interstitialAd = "loaded"
                   THEN /\ interstitialAd' = "showing"
                        /\ shown' = Shown(now)
                        /\ adOutcome' = [fn |-> "showInterstitialAd",
                                         res |-> TRUE]
                   ELSE /\ adOutcome' = [fn |-> "showInterstitialAd",
                                         res |-> FALSE]
                        /\ UNCHANGED <<interstitialAd, shown>>
  /\ UNCHANGED <<isInitialized, rewardedAd, adFreeUnlocked, mobileAds, running,
                 bannerShown, iouVars, categoryVars, authVars>>

\* the CLOSED event of the interstitial: updateInterstitialFrequency, then
\* the next ad is requested
InterstitialClosed ==
  /\ interstitialAd = "showing"
  /\ \E ok \in BOOLEAN :
       LET updated ==
             [adFrequencyData EXCEPT
                !.lastInterstitial = now,
                !.interstitialsToday = @ + 1,
                !.interstitialsSession = @ + 1]
       IN  /\ adFrequencyData' = updated
           /\ storedFrequency' = SaveAdFrequencyData(ok, updated)
  /\ interstitialAd' = "loading"
  /\ UNCHANGED <<isInitialized, rewardedAd, adFreeUnlocked, mobileAds, running,
                 adOutcome, shown, bannerShown, iouVars, categoryVars,
                 authVars>>

\* showRewardedAd
ShowRewardedAd ==
  /\ running
  /\ NoAdOnScreen
  /\ \E okRead \in BOOLEAN :
       LET isAdFree == IsAdFreeUnlocked(okRead)
       IN  IF ~isInitialized \/ isAdFree \/ rewardedAd = "null"
              \/ rewardedAd # "loaded"
           THEN /\ adOutcome' = [fn |-> "showRewardedAd", res |-> FALSE]
                /\ UNCHANGED rewardedAd
           ELSE /\ adOutcome' = [fn |-> "showRewardedAd", res |-> TRUE]
                /\ rewardedAd' = "showing"
  /\ UNCHANGED <<adFrequencyData, storedFrequency, isInitialized,
                 interstitialAd, adFreeUnlocked, mobileAds, running, shown,
                 bannerShown, iouVars, categoryVars, authVars>>

\* the CLOSED event of the rewarded ad: the next ad is requested
RewardedClosed ==
  /\ rewardedAd = "showing"
  /\ rewardedAd' = "loading"
  /\ UNCHANGED <<adFrequencyData, storedFrequency, isInitialized,
                 interstitialAd, adFreeUnlocked, mobileAds, running, adOutcome,
                 shown, bannerShown, iouVars, categoryVars, authVars>>

\* shouldShowAds
ShouldShowAds ==
  /\ running
  /\ NoAdOnScreen
  /\ \E ok \in BOOLEAN :
       adOutcome' = [fn |-> "shouldShowAds", res |-> ~IsAdFreeUnlocked(ok)]
  /\ UNCHANGED <<adFrequencyData, storedFrequency, isInitialized,
                 interstitialAd, rewardedAd, adFreeUnlocked, mobileAds,
                 running, shown, bannerShown, iouVars, categoryVars, authVars>>

\* AdBanner in a build that holds the native ad module: a BannerAd is
\* rendered unless getBannerAdUnitId() is empty
AdBanner == GetBannerAdUnitId # ""

\* a screen renders AdBanner
RenderAdBanner ==
  /\ running
  /\ NoAdOnScreen
  /\ bannerShown' = AdBanner
  /\ UNCHANGED <<adFrequencyData, storedFrequency, isInitialized,
                 interstitialAd, rewardedAd, adFreeUnlocked, mobileAds,
                 running, adOutcome, shown, iouVars, categoryVars, authVars>>

\* purchaseAdFree confirmed by the user: unlockAdFree writes the flag; a
\* failed write ends in the 'Purchase Failed' alert
PurchaseAdFree ==
  /\ running
  /\ NoAdOnScreen
  /\ ~adFreeUnlocked
  /\ \E ok \in BOOLEAN : adFreeUnlocked' = ok
  /\ UNCHANGED <<adFrequencyData, storedFrequency, isInitialized,
                 interstitialAd, rewardedAd, mobileAds, running, adOutcome,
                 shown, bannerShown, iouVars, categoryVars, authVars>>

\* resetSessionCounters
ResetSessionCounters(data) == [data EXCEPT !.interstitialsSession = 0]

\* handleAppStateChange('active'): the session counter is reset, and a new
\* session begins
AppActive ==
  /\ appState' = "active"
  /\ adFrequencyData' = ResetSessionCounters(adFrequencyData)
  /\ shown' = [shown EXCEPT !.session = 0]
  /\ UNCHANGED <<storedFrequency, isInitialized, interstitialAd, rewardedAd,
                 adFreeUnlocked, mobileAds, running, adOutcome, bannerShown,
                 iouVars, categoryVars, security, isAuthenticated,
                 authRequired, isLoading, checkPending, authScreen,
                 pendingPin>>

\* the process ends (also while an ad is on screen) and the app is opened
\* again: the AdService is constructed anew, a new session begins
RestartAds ==
  /\ running
  /\ running' = FALSE
  /\ adFrequencyData' = InitialFrequency(now)
  /\ isInitialized' = FALSE
  /\ interstitialAd' = "null"
  /\ rewardedAd' = "null"
  /\ mobileAds' = FALSE
  /\ adOutcome' = NoAdOutcome
  /\ bannerShown' = FALSE
  /\ shown' = [shown EXCEPT !.session = 0]
  /\ UNCHANGED <<storedFrequency, adFreeUnlocked, iouVars, categoryVars,
                 authVars>>

\* minutes pass
AdTick ==
  /\ \E d \in AdTicks :
       /\ (now + d) % OneDay <= (NowStart % OneDay) + MaxAdMinutes
       /\ now' = now + d
  /\ UNCHANGED <<ious, settings, registry, delivered, avail, task, nextId,
                 nextNotif, started, calc, categoryVars, adVars, authVars>>

\* the same time of the next day is reached
AdNextDay ==
  /\ now + OneDay <= NowStart + MaxAdDays * OneDay + MaxAdMinutes
  /\ now' = now + OneDay
  /\ UNCHANGED <<ious, settings, registry, delivered, avail, task, nextId,
                 nextNotif, started, calc, categoryVars, adVars, authVars>>

\* the app was used before: an earlier run of the same day showed k
\* interstitials and stored its counters
InitAds ==
  /\ InitCategoryManager
  /\ InitRootLayout
  /\ ious = <<>>
  /\ settings = DefaultReminders
  /\ registry = {}
  /\ delivered = {}
  /\ now = NowStart
  /\ avail = TRUE
  /\ task = [t \in Tasks |-> IdleTask]
  /\ nextId = 1
  /\ nextNotif = 1
  /\ started = 0
  /\ calc = NoCalc
  /\ adFrequencyData = InitialFrequency(NowStart)
  /\ isInitialized = FALSE
  /\ interstitialAd = "null"
  /\ rewardedAd = "null"
  /\ adFreeUnlocked = FALSE
  /\ mobileAds = FALSE
  /\ running = FALSE
  /\ adOutcome = NoAdOutcome
  /\ bannerShown = FALSE
  /\ \E k \in EarlierToday :
       IF k = 0
       THEN storedFrequency = NoItem /\ shown = NoneShown
       ELSE /\ storedFrequency =
                 [present |-> TRUE,
                  data |-> [lastInterstitial |-> NowStart - 60,
                            interstitialsToday |-> k,
                            interstitialsSession |-> 1,
                            lastDate |-> DateString(NowStart)]]
            /\ shown = [last |-> NowStart - 61, session |-> 0, day |-> k,
                        date |-> DateString(NowStart)]

NextAds ==
  \/ LaunchAds
  \/ InterstitialLoaded
  \/ ShowInterstitialAd
  \/ InterstitialClosed
  \/ AppActive
  \/ RestartAds
  \/ AdTick
  \/ AdNextDay

SpecAds == InitAds /\ [][NextAds]_vars

\* the advertisements of one day and the purchase of the ad-free version
NextAdFree ==
  \/ LaunchAds
  \/ InterstitialLoaded
  \/ RewardedLoaded
  \/ ShowInterstitialAd
  \/ InterstitialClosed
  \/ ShowRewardedAd
  \/ RewardedClosed
  \/ ShouldShowAds
  \/ RenderAdBanner
  \/ PurchaseAdFree
  \/ AppActive
  \/ RestartAds

SpecAdFree == Init /\ [][NextAdFree]_vars

\* ------------------------------------------- _layout.tsx, AuthScreen.tsx
\* digits of the PIN pad
PinDigits == {1, 2}

\* longest PIN the pad accepts
MaxPinLength == 6

\* shortest PIN handlePinSetup accepts
MinPinLength == 4

\* what the user types into the two fields of the PIN set-up
NewPinInputs == {<<1, 1>>, <<1, 1, 1, 1>>, <<1, 2, 1, 1>>}

\* loadSettings, the security part: the stored values over the defaults; the
\* defaults when the read throws
LoadSecurity(ok) == IF ok THEN security ELSE NoSecurity

\* RootLayout renders the Stack of protected screens
Rendered(loading, required, authenticated) ==
  ~loading /\ ~(required /\ ~authenticated)

Protected == Rendered(isLoading, authRequired, isAuthenticated)

\* RootLayout renders AuthScreen
Locked(loading, required, authenticated) ==
  ~loading /\ required /\ ~authenticated

AuthScreenMounted == Locked(isLoading, authRequired, isAuthenticated)

\* AuthScreen keeps its state while it stays mounted and starts afresh when
\* it is mounted again
AuthScreenAfter(loading, required, authenticated) ==
  IF AuthScreenMounted /\ Locked(loading, required, authenticated)
  THEN authScreen ELSE FreshAuthScreen

\* the lock is on in the stored settings
LockEnabled == security.pinEnabled \/ security.biometricEnabled

\* checkAuthStatus, run by initializeApp; the effect runs initializeApp
\* again when authRequired has changed
CheckAuthStatus ==
  /\ checkPending
  /\ \E ok \in BOOLEAN :
       LET s == LoadSecurity(ok)
           requiresAuth == s.pinEnabled \/ s.biometricEnabled
       IN  /\ authRequired' = requiresAuth
           /\ isAuthenticated' = ~requiresAuth
           /\ isLoading' = FALSE
           /\ checkPending' = (requiresAuth # authRequired)
           /\ authScreen' = AuthScreenAfter(FALSE, requiresAuth, ~requiresAuth)
  /\ UNCHANGED <<security, pendingPin, appState, iouVars, categoryVars,
                 adVars>>

\* handleAppStateChange('background' | 'inactive')
AppBackground ==
  /\ appState = "active"
  /\ appState' = "background"
  /\ isAuthenticated' = IF authRequired THEN FALSE ELSE isAuthenticated
  /\ authScreen' = AuthScreenAfter(isLoading, authRequired, isAuthenticated')
  /\ UNCHANGED <<security, authRequired, isLoading, checkPending, pendingPin,
                 iouVars, categoryVars, adVars>>

\* the user can use the protected screens
UsingApp == Protected /\ appState = "active"

\* handlePinSetup on the settings screen; a failed write ends in an alert
HandlePinSetup ==
  /\ UsingApp
  /\ \E newPin \in NewPinInputs, confirmPin \in NewPinInputs, ok \in BOOLEAN :
       security' =
         IF Len(newPin) < MinPinLength \/ newPin # confirmPin \/ ~ok
         THEN security
         ELSE [security EXCEPT !.pinEnabled = TRUE, !.pin = newPin]
  /\ UNCHANGED <<isAuthenticated, authRequired, isLoading, checkPending,
                 authScreen, pendingPin, appState, iouVars, categoryVars,
                 adVars>>

\* handlePinToggle(false)
HandlePinToggle ==
  /\ UsingApp
  /\ security.pinEnabled
  /\ \E ok \in BOOLEAN :
       security' = IF ok
                   THEN [security EXCEPT !.pinEnabled = FALSE, !.pin = <<>>]
                   ELSE security
  /\ UNCHANGED <<isAuthenticated, authRequired, isLoading, checkPending,
                 authScreen, pendingPin, appState, iouVars, categoryVars,
                 adVars>>

\* handleBiometricToggle: enabling needs the hardware, an enrolment and a
\* successful prompt
HandleBiometricToggle ==
  /\ UsingApp
  /\ \E enabled \in BOOLEAN, ok \in BOOLEAN :
       security' = IF ok THEN [security EXCEPT !.biometricEnabled = enabled]
                   ELSE security
  /\ UNCHANGED <<isAuthenticated, authRequired, isLoading, checkPending,
                 authScreen, pendingPin, appState, iouVars, categoryVars,
                 adVars>>

\* the effect of AuthScreen on mount: loadAuthSettings and
\* checkBiometricAvailability
LoadAuthSettings ==
  /\ AuthScreenMounted
  /\ ~authScreen.loaded
  /\ \E ok \in BOOLEAN, available \in BOOLEAN :
       LET s == LoadSecurity(ok)
       IN  authScreen' = [authScreen EXCEPT
                            !.storedPin = s.pin,
                            !.biometricEnabled = s.biometricEnabled,
                            !.biometricAvailable = available,
                            !.loaded = TRUE]
  /\ UNCHANGED <<security, isAuthenticated, authRequired, isLoading,
                 checkPending, pendingPin, appState, iouVars, categoryVars,
                 adVars>>

\* handlePinInput: the digit is appended and, at the length of the stored
\* PIN, verifyPin is scheduled with the values of this render
HandlePinInput ==
  /\ AuthScreenMounted
  /\ appState = "active"
  /\ ~pendingPin.pending
  /\ Len(authScreen.pin) < MaxPinLength
  /\ \E digit \in PinDigits :
       LET newPin == Append(authScreen.pin, digit)
       IN  /\ authScreen' = [authScreen EXCEPT !.pin = newPin]
           /\ pendingPin' =
                IF Len(newPin) = Len(authScreen.storedPin)
                THEN [pending |-> TRUE, inputPin |-> newPin,
                      storedPin |-> authScreen.storedPin]
                ELSE NoPin
  /\ UNCHANGED <<security, isAuthenticated, authRequired, isLoading,
                 checkPending, appState, iouVars, categoryVars, adVars>>

\* handlePinDelete
HandlePinDelete ==
  /\ AuthScreenMounted
  /\ appState = "active"
  /\ ~pendingPin.pending
  /\ authScreen.pin # <<>>
  /\ authScreen' = [authScreen EXCEPT
                      !.pin = SubSeq(@, 1, Len(@) - 1)]
  /\ UNCHANGED <<security, isAuthenticated, authRequired, isLoading,
                 checkPending, pendingPin, appState, iouVars, categoryVars,
                 adVars>>

\* the timeout of handlePinInput fires: verifyPin
VerifyPin ==
  /\ pendingPin.pending
  /\ pendingPin' = NoPin
  /\ IF pendingPin.inputPin = pendingPin.storedPin
     THEN /\ isAuthenticated' = TRUE
          /\ authScreen' = AuthScreenAfter(isLoading, authRequired, TRUE)
     ELSE /\ authScreen' = [authScreen EXCEPT !.pin = <<>>]
          /\ UNCHANGED isAuthenticated
  /\ UNCHANGED <<security, authRequired, isLoading, checkPending, appState,
                 iouVars, categoryVars, adVars>>

\* handleBiometricAuth, the prompt answered
HandleBiometricAuth ==
  /\ AuthScreenMounted
  /\ appState = "active"
  /\ authScreen.biometricAvailable /\ authScreen.biometricEnabled
  /\ \E success \in BOOLEAN :
       /\ isAuthenticated' = success
       /\ authScreen' = AuthScreenAfter(isLoading, authRequired, success)
  /\ UNCHANGED <<security, authRequired, isLoading, checkPending, pendingPin,
                 appState, iouVars, categoryVars, adVars>>

\* the process ends and the app is opened again: RootLayout is mounted anew
RestartLayout ==
  /\ ~isLoading
  /\ isAuthenticated' = FALSE
  /\ authRequired' = FALSE
  /\ isLoading' = TRUE
  /\ checkPending' = TRUE
  /\ authScreen' = FreshAuthScreen
  /\ pendingPin' = NoPin
  /\ appState' = "active"
  /\ UNCHANGED <<security, iouVars, categoryVars, adVars>>

NextAuth ==
  \/ CheckAuthStatus
  \/ AppBackground
  \/ AppActive
  \/ HandlePinSetup
  \/ HandlePinToggle
  \/ HandleBiometricToggle
  \/ LoadAuthSettings
  \/ HandlePinInput
  \/ HandlePinDelete
  \/ VerifyPin
  \/ HandleBiometricAuth
  \/ RestartLayout

SpecAuth == Init /\ [][NextAuth]_vars

\* ------------------------------------------------------- add-iou.tsx
\* characters of the text typed into the amount field
MaxAmountText == 2

\* characters the amount field is given
AmountChars == {"0", "5", "-", ".", "x"}

\* the decimal digits
Digits == <<"0", "1", "2", "3", "4", "5", "6", "7", "8", "9">>

IsDigit(c) == \E d \in 1 .. Len(Digits) : Digits[d] = c

DigitValue(c) == (CHOOSE d \in 1 .. Len(Digits) : Digits[d] = c) - 1

\* the longest prefix of s made of digits
RECURSIVE DigitPrefix(_)
DigitPrefix(s) ==
  IF s # <<>> /\ IsDigit(Head(s)) THEN <<Head(s)>> \o DigitPrefix(Tail(s))
  ELSE <<>>

\* the number a digit string denotes
RECURSIVE NumberOf(_)
NumberOf(ds) ==
  IF ds = <<>> THEN 0
  ELSE 10 * NumberOf(SubSeq(ds, 1, Len(ds) - 1)) + DigitValue(ds[Len(ds)])

\* the hundredths a string of fractional digits denotes (two digits are kept)
Hundredths(ds) ==
  IF ds = <<>> THEN 0
  ELSE IF Len(ds) = 1 THEN 10 * DigitValue(ds[1])
  ELSE 10 * DigitValue(ds[1]) + DigitValue(ds[2])

\* the result of parseFloat when no prefix of the text is a number
NaN == [nan |-> TRUE, value |-> 0]

\* parseFloat: leading blanks are skipped and the longest prefix that is a
\* decimal literal (sign, digits, point, digits) is read, whatever follows
\* it; NaN when there is no such prefix. The value is in hundredths.
ParseFloat(text) ==
  LET s == TrimStart(text)
      signed == s # <<>> /\ Head(s) \in {"-", "+"}
      negative == s # <<>> /\ Head(s) = "-"
      body == IF signed THEN Tail(s) ELSE s
      whole == DigitPrefix(body)
      rest == SubSeq(body, Len(whole) + 1, Len(body))
      fraction == IF rest # <<>> /\ Head(rest) = "."
                  THEN DigitPrefix(Tail(rest)) ELSE <<>>
      magnitude == 100 * NumberOf(whole) + Hundredths(fraction)
  IN  IF whole = <<>> /\ fraction = <<>> THEN NaN
      ELSE [nan |-> FALSE,
            value |-> IF negative THEN 0 - magnitude ELSE magnitude]

\* x <= 0 on numbers: false when x is NaN
NotAbove0(x) == ~x.nan /\ x.value <= 0

\* the texts of the amount field
RECURSIVE TextsUpTo(_, _)
TextsUpTo(chars, n) ==
  IF n = 0 THEN {<<>>}
  ELSE LET shorter == TextsUpTo(chars, n - 1)
       IN  shorter \cup {Append(t, c) : t \in shorter, c \in chars}

AmountTexts == TextsUpTo(AmountChars, MaxAmountText)

\* the texts of the name field
PersonNameTexts == {<<>>, <<" ">>, <<"a">>, <<" ", "a">>}

\* handleSave, the two tests before addIOU
FormBlocked(amount, personName) ==
  \/ amount = <<>> \/ NotAbove0(ParseFloat(amount))
  \/ Trim(personName) = <<>>

\* the record addIOU stores for the form's values
FormIOU(amount, personName) ==
  [id |-> nextId, type |-> "lent", amount |-> ParseFloat(amount),
   personName |-> Trim(personName), date |-> now, dueDate |-> NoDate,
   isSettled |-> FALSE, settledDate |-> NoDate, lastReminder |-> NoDate,
   remindersSent |-> 0, createdAt |-> now, updatedAt |-> now]

\* handleSave: the form is blocked by an alert, or addIOU loads the list,
\* appends the record and saves; a failed write ends in the 'Failed to add
\* transaction' alert
HandleSave ==
  /\ nextId <= MaxIOUs
  /\ \E amount \in AmountTexts, personName \in PersonNameTexts,
        okLoad \in BOOLEAN, okSave \in BOOLEAN :
       IF FormBlocked(amount, personName)
       THEN /\ calc' = [done |-> TRUE, fn |-> "handleSave",
                        amount |-> amount, personName |-> personName,
                        addIOU |-> FALSE, before |-> ious]
            /\ UNCHANGED <<ious, nextId>>
       ELSE /\ calc' = [done |-> TRUE, fn |-> "handleSave",
                        amount |-> amount, personName |-> personName,
                        addIOU |-> TRUE, before |-> ious]
            /\ ious' = IF okSave
                       THEN AddedList(LoadIOUs(okLoad),
                                      FormIOU(amount, personName))
                       ELSE ious
            /\ nextId' = nextId + 1
  /\ UNCHANGED <<settings, registry, delivered, now, avail, task, nextNotif,
                 started, categoryVars, adVars, authVars>>

NextForm == HandleSave

SpecForm == InitCategory /\ [][NextForm]_vars

\* ------------------------------------------------- ExportManager.ts
\* records in an exported list
MaxExport == 2

\* headers.join(',')
HeaderRow ==
  <<"Person Name", ",", "Amount", ",", "Type", ",", "Date", ",", "Due Date",
    ",", "Status", ",", "Notes", ",", "Created", ",", "Settled Date">>

\* the decimal digits of a natural number
RECURSIVE Decimal(_)
Decimal(n) ==
  IF n < 10 THEN <<Digits[n + 1]>>
  ELSE Decimal(n \div 10) \o <<Digits[(n % 10) + 1]>>

\* Number.prototype.toFixed(2) of an amount in hundredths
ToFixed2(amount) ==
  Decimal(amount \div 100) \o <<".">>
    \o <<Digits[((amount % 100) \div 10) + 1], Digits[(amount % 10) + 1]>>

\* format(date, 'yyyy-MM-dd'): the calendar day, written as its number
FormatDay(t) == Decimal(DateString(t))

\* format(date, 'yyyy-MM-dd HH:mm:ss'): the day and the minute of the day
FormatDayTime(t) == FormatDay(t) \o <<" ">> \o Decimal(t % OneDay)

\* `"${text}"`
Quoted(text) == <<"\"">> \o text \o <<"\"">>

\* Array.prototype.join
RECURSIVE Join(_, _)
Join(parts, separator) ==
  IF parts = <<>> THEN <<>>
  ELSE IF Len(parts) = 1 THEN parts[1]
  ELSE parts[1] \o <<separator>> \o Join(Tail(parts), separator)

\* generateCSVContent, one data row
CsvRow(iou) ==
  Join(<<Quoted(iou.personName),
         ToFixed2(iou.amount),
         <<iou.type>>,
         FormatDay(iou.date),
         IF iou.dueDate # NoDate THEN FormatDay(iou.dueDate) ELSE <<>>,
         IF iou.isSettled THEN <<"Settled">> ELSE <<"Active">>,
         Quoted(iou.note),
         FormatDayTime(iou.createdAt),
         IF iou.settledDate # NoDate THEN FormatDay(iou.settledDate)
         ELSE <<>>>>, ",")

\* generateCSVContent
GenerateCSVContent(list) ==
  Join(<<HeaderRow>> \o [i \in 1 .. Len(list) |-> CsvRow(list[i])], "\n")

\* the lines of a text: its pieces between line breaks
RECURSIVE Lines(_)
Lines(text) ==
  IF \E i \in 1 .. Len(text) : text[i] = "\n"
  THEN LET i == CHOOSE k \in 1 .. Len(text) :
                  text[k] = "\n" /\ \A j \in 1 .. k - 1 : text[j] # "\n"
       IN  <<SubSeq(text, 1, i - 1)>> \o Lines(SubSeq(text, i + 1, Len(text)))
  ELSE <<text>>

\* names of the exported records
ExportNames == {<<"a">>, <<"a", ",", "b">>, <<"a", "\"">>}

\* notes of the exported records: none, one line, two lines, a comma
ExportNotes == {<<>>, <<"n">>, <<"n", "\n", "m">>, <<",">>}

\* records the record store can hold
ExportIOUs ==
  {[id |-> 1, type |-> ty, amount |-> 1250, personName |-> name,
    note |-> note, date |-> NowStart - OneDay, dueDate |-> NoDate,
    isSettled |-> settled,
    settledDate |-> IF settled THEN NowStart ELSE NoDate,
    lastReminder |-> NoDate, remindersSent |-> 0,
    createdAt |-> NowStart - OneDay, updatedAt |-> NowStart] :
      ty \in {"lent", "borrowed"}, name \in ExportNames,
      note \in ExportNotes, settled \in BOOLEAN}

\* the lists of at most n such records
RECURSIVE ExportLists(_)
ExportLists(n) ==
  IF n = 0 THEN {<<>>}
  ELSE LET shorter == ExportLists(n - 1)
       IN  shorter \cup {Append(l, iou) : l \in shorter, iou \in ExportIOUs}

InitExport ==
  /\ InitCategoryManager
  /\ InitAdService
  /\ InitRootLayout
  /\ ious = <<>>
  /\ settings = DefaultReminders
  /\ registry = {}
  /\ delivered = {}
  /\ now = NowStart
  /\ avail = TRUE
  /\ task = [t \in Tasks |-> IdleTask]
  /\ nextId = 1
  /\ nextNotif = 1
  /\ started = 0
  /\ \E list \in ExportLists(MaxExport) : calc = [done |-> FALSE, list |-> list]

\* exportTransactions(ious, 'csv') builds the text of the file
ExportCSV ==
  /\ ~calc.done
  /\ calc' = [done |-> TRUE, fn |-> "generateCSVContent", list |-> calc.list,
              csv |-> GenerateCSVContent(calc.list)]
  /\ UNCHANGED <<ious, settings, registry, delivered, now, avail, task,
                 nextId, nextNotif, started, categoryVars, adVars, authVars>>

NextExport == ExportCSV

SpecExport == InitExport /\ [][NextExport]_vars

\* ------------------------------------------------------------- claims
\* C6: for a record with dueDate = D and daysBeforeDueDate = k, the
\* candidate scheduleIOUReminder computes (before the time of day is set) is
\* D - k days when that instant is strictly after now, and now + 5 minutes
\* otherwise.
C6_DueDateCandidate ==
  (calc.done /\ calc.iou.dueDate # NoDate) =>
    LET target == calc.iou.dueDate
                    - calc.reminders.dueDateDaysBefore * OneDay
    IN  calc.candidate = IF target > calc.now THEN target
                         ELSE calc.now + FiveMinutes

\* a computed candidate whose D - k days is exactly now: it is clamped
C6_Witness ==
  /\ calc.done
  /\ calc.iou.dueDate # NoDate
  /\ calc.iou.dueDate - calc.reminders.dueDateDaysBefore * OneDay = calc.now
  /\ calc.candidate = calc.now + FiveMinutes

\* C7: when dueDate - daysBeforeDueDate days is not strictly in the future,
\* the instant the firing delay is derived from (reminderDate after the
\* time-of-day overwrite) is never earlier than now.
C7_ClampedNotPast ==
  (/\ calc.done
   /\ calc.iou.dueDate # NoDate
   /\ calc.iou.dueDate - calc.reminders.dueDateDaysBefore * OneDay
        <= calc.now)
    => calc.reminderDate >= calc.now

\* C8: for a record with no dueDate the candidate is (lastReminder, or the
\* record's date when there is none) + periodicReminderDays days, and the
\* reminder date is that candidate's day at notificationTime.
C8_PeriodicCandidate ==
  (calc.done /\ calc.iou.dueDate = NoDate) =>
    LET base == IF calc.iou.lastReminder # NoDate THEN calc.iou.lastReminder
                ELSE calc.iou.date
        target == base + calc.reminders.periodicReminderDays * OneDay
        hm == calc.reminders.notificationTime
    IN  /\ calc.candidate = target
        /\ calc.reminderDate \div OneDay = target \div OneDay
        /\ calc.reminderDate % OneDay = hm[1] * 60 + hm[2]

\* a periodic record never reminded: the date is C + p days at the policy
\* time of day
C8_Witness ==
  /\ calc.done
  /\ calc.iou.dueDate = NoDate
  /\ calc.iou.lastReminder = NoDate
  /\ calc.reminderDate =
       ((calc.iou.date + calc.reminders.periodicReminderDays * OneDay)
          \div OneDay) * OneDay
         + calc.reminders.notificationTime[1] * 60
         + calc.reminders.notificationTime[2]

\* C1: with reminders enabled and the notification service available, the
\* registry holds at most one pending notification per record id.
C1_AtMostOnePending ==
  (avail /\ settings.enabled) =>
    \A id \in 1 .. MaxIOUs :
      Cardinality({n \in registry : n.iouId = id}) <= 1

\* C2: when settleIOU for a record completes, no notification for that
\* record is pending in the registry.
C2_SettleCancelsPending ==
  [][\A t \in Tasks :
       (/\ task[t].op = "settle" /\ task[t].pc = "save"
        /\ task'[t].pc = "done" /\ task'[t].res = "ok")
         => \A n \in registry' : n.iouId # task[t].id]_vars

\* C3: no notification is handed to the notification service for a record
\* that is settled in the record store at that moment.
C3_NoScheduleForSettled ==
  [][\A n \in registry' \ registry :
       \A i \in 1 .. Len(ious) :
         ious[i].id = n.iouId => ~ious[i].isSettled]_vars

\* C4: when a read or a write of the store fails during addIOU, updateIOU,
\* settleIOU or deleteIOU, the operation is rejected and the persisted list
\* is left as it was; a failed read never leads to a write of the list.
C4_FailedStorageAborts ==
  [][\A t \in Tasks :
       (/\ task[t].op \in {"add", "settle", "delete"}
        /\ task[t].pc = "save" /\ task'[t].pc = "done")
         => /\ task[t].readFailed
                 => (ious' = ious /\ task'[t].res = "rejected")
            /\ task'[t].res = "rejected" => ious' = ious]_vars

\* the records of a list other than the one with the id
Others(s, id) ==
  LET Other(iou) == iou.id # id IN SelectSeq(s, Other)

\* C5: a store operation saves the whole list it loaded with its own change
\* applied: whatever the store holds at the save, every other record is
\* written as the operation's snapshot had it (last write wins).
C5_WholeListLastWriteWins ==
  [][\A t \in Tasks :
       (/\ task[t].pc \in {"save", "ackSave"}
        /\ task'[t].pc # task[t].pc
        /\ ious' # ious)
         => LET id == IF task[t].op = "add" THEN nextId ELSE task[t].id
            IN  Others(ious', id) = Others(task[t].snap, id)]_vars

\* addIOU and settleIOU overlapped and both completed without error, and the
\* record the add wrote is absent from the persisted list
C5_Witness ==
  \E t \in Tasks, u \in Tasks :
    /\ task[t].op = "add" /\ task[t].pc = "done" /\ task[t].res = "ok"
    /\ ~task[t].readFailed
    /\ task[u].op = "settle" /\ task[u].pc = "done" /\ task[u].res = "ok"
    /\ ~task[u].readFailed
    /\ task[t].id \notin Ids(ious)
    /\ \E i \in 1 .. Len(ious) :
         ious[i].id = task[u].id /\ ious[i].isSettled

C10_AcknowledgementUpdatesOnlyR ==
  [][\A t \in Tasks :
       (/\ task[t].op = "ack" /\ task[t].pc = "ackSave"
        /\ task'[t].pc = "reLoad"
        /\ ious' # ious)
         => ious' = WithReminderSent(ious, task[t].id)]_vars

\* C11: after an acknowledgement for record R (reminders enabled, service
\* available) the reschedule enters scheduleIOUReminder if and only if R is
\* in the record store, unsettled and without dueDate; and the notification
\* it schedules is computed from the lastReminder the acknowledgement wrote:
\* acknowledgement time + periodicReminderDays days, at notificationTime.
C11_RescheduleAfterAcknowledgement ==
  [][\A t \in Tasks :
       /\ (/\ task[t].op = "ack" /\ task[t].pc = "reCheck"
           /\ task'[t] # task[t]
           /\ avail /\ settings.enabled)
            => (task'[t].pc = "sched"
                  <=> \E i \in 1 .. Len(ious) :
                        /\ ious[i].id = task[t].id
                        /\ ~ious[i].isSettled
                        /\ ious[i].dueDate = NoDate)
       /\ (task[t].op = "ack" /\ task[t].pc = "sched")
            => \A n \in registry' \ registry :
                 LET hm == ParseTime(task[t].sset.notificationTime)
                 IN  n.reminderDate =
                       SetHours(now + task[t].sset.periodicReminderDays
                                        * OneDay, hm[1], hm[2])]_vars

\* C12: for every unsettled record, the reminderDate getUpcomingReminders
\* computes equals the date scheduleIOUReminder computes for the same
\* record, policy and now (same offset, same clamp of a past candidate to
\* now + 5 minutes, same time of day).
C12_UpcomingSameAsScheduled ==
  (calc.done /\ calc.fn = "getUpcomingReminders") =>
    \A i \in 1 .. Len(calc.computed) :
      calc.computed[i].reminderDate =
        ReminderDate(calc.computed[i].iou, calc.sset, now)

RECURSIVE SumOver(_, _)
SumOver(L, I) ==
  IF I = {} THEN 0
  ELSE LET i == CHOOSE j \in I : TRUE
       IN  L[i].amount + SumOver(L, I \ {i})

\* C15: calculateSummary(L) returns totalOwed = sum of amount over the
\* unsettled 'lent' records, totalOwing = sum of amount over the unsettled
\* 'borrowed' records and netBalance = totalOwed - totalOwing; settled
\* records count nowhere and the empty list gives 0, 0, 0.
C15_SummaryTotals ==
  (calc.done /\ calc.fn = "calculateSummary") =>
    LET L == calc.list
        lent == {i \in 1 .. Len(L) : ~L[i].isSettled /\ L[i].type = "lent"}
        borrowed == {i \in 1 .. Len(L) :
                       ~L[i].isSettled /\ L[i].type = "borrowed"}
    IN  /\ calc.summary.totalOwed = SumOver(L, lent)
        /\ calc.summary.totalOwing = SumOver(L, borrowed)
        /\ calc.summary.netBalance =
             calc.summary.totalOwed - calc.summary.totalOwing
        /\ L = <<>> => calc.summary = [totalOwed |-> 0, totalOwing |-> 0,
                                       netBalance |-> 0]

\* lent 50, borrowed 20 and a settled lent 100 give 50, 20, 30
C15_Witness ==
  /\ calc.done /\ calc.fn = "calculateSummary"
  /\ Len(calc.list) = 3
  /\ \E i \in 1 .. 3 : /\ calc.list[i].type = "lent"
                       /\ calc.list[i].amount = 50
                       /\ ~calc.list[i].isSettled
  /\ \E i \in 1 .. 3 : /\ calc.list[i].type = "borrowed"
                       /\ calc.list[i].amount = 20
                       /\ ~calc.list[i].isSettled
  /\ \E i \in 1 .. 3 : /\ calc.list[i].type = "lent"
                       /\ calc.list[i].amount = 100
                       /\ calc.list[i].isSettled
  /\ calc.summary = [totalOwed |-> 50, totalOwing |-> 20, netBalance |-> 30]

\* C14: scheduleIOUReminder, cancelIOUReminder, scheduleAllReminders and
\* cancelAllReminders never reject, whether the notification service
\* throws or is unavailable; they leave the record store unchanged; and
\* when the service is unavailable nothing is handed to it or taken from it.
C14_RemindersBestEffort ==
  [][\A t \in Tasks :
       (/\ task[t].pc \in {"load", "begin", "next", "sched", "cancelAll",
                           "reCheck"}
        /\ task'[t] # task[t])
         => /\ ious' = ious
            /\ task'[t].res # "rejected"
            /\ ~avail => (registry' = registry /\ nextNotif' = nextNotif)]_vars

\* scheduleAllReminders ran to its end with a record to remind of and an
\* unavailable service: it returned normally, nothing is pending, the
\* record is stored
C14_Witness ==
  \E t \in Tasks :
    /\ task[t].op = "setting" /\ task[t].pc = "done" /\ task[t].res = "ok"
    /\ ~avail
    /\ settings.enabled
    /\ registry = {}
    /\ \E i \in 1 .. Len(ious) : ~ious[i].isSettled

\* C16: every record of the record store has settledDate set if and only if
\* isSettled is true.
C16_SettledDateIffSettled ==
  \A i \in 1 .. Len(ious) :
    (ious[i].settledDate # NoDate) <=> ious[i].isSettled

\* a record settled now and an unsettled one are stored
C16_Witness ==
  /\ \E i \in 1 .. Len(ious) : ious[i].isSettled /\ ious[i].settledDate = now
  /\ \E i \in 1 .. Len(ious) :
       ~ious[i].isSettled /\ ious[i].settledDate = NoDate

\* a category operation has just run on an initialised manager
CategoryStep == initialized /\ categoryOps' = categoryOps + 1

\* the in-memory and the persisted category list are as they were
CategoriesUnchanged ==
  categories' = categories /\ storedCategories' = storedCategories

\* C17: createCategory(name) fails with 'Category name already exists'
\* whenever an existing category's name equals name case-insensitively, and
\* updateCategory(id, {name}) of an existing category fails with it whenever
\* another category's name equals the new name case-insensitively; in both
\* cases the in-memory and the persisted list are unchanged.
C17_DuplicateNameRejected ==
  [][CategoryStep =>
       /\ (/\ outcome'.op = "createCategory"
           /\ \E i \in 1 .. Len(categories) :
                ToLowerCase(categories[i].name) = ToLowerCase(outcome'.name))
            => /\ outcome'.res = "Category name already exists"
               /\ CategoriesUnchanged
       /\ (/\ outcome'.op = "updateCategory"
           /\ outcome'.id \in CategoryIds(categories)
           /\ outcome'.updates.name # NoName
           /\ \E i \in 1 .. Len(categories) :
                /\ categories[i].id # outcome'.id
                /\ ToLowerCase(categories[i].name)
                     = ToLowerCase(outcome'.updates.name))
            => /\ outcome'.res = "Category name already exists"
               /\ CategoriesUnchanged]_vars

\* C18: no two categories of the list have names that are equal
\* case-insensitively.
C18_NamesUnique ==
  \A i \in 1 .. Len(categories), j \in 1 .. Len(categories) :
    i # j => ToLowerCase(categories[i].name) # ToLowerCase(categories[j].name)

\* C19: updateCategory(id, ...) and deleteCategory(id) fail with 'Category
\* not found' when no category has the id, and deleteCategory fails with
\* 'Cannot delete default category' when the category has isDefault; on
\* these errors the lists are unchanged; and after every operation each
\* default category is in the list.
C19_NotFoundAndProtectedDefault ==
  [][/\ CategoryStep =>
          /\ (/\ outcome'.op \in {"updateCategory", "deleteCategory"}
              /\ outcome'.id \notin CategoryIds(categories))
               => /\ outcome'.res = "Category not found"
                  /\ CategoriesUnchanged
          /\ (/\ outcome'.op = "deleteCategory"
              /\ \E i \in 1 .. Len(categories) :
                   categories[i].id = outcome'.id /\ categories[i].isDefault)
               => /\ outcome'.res = "Cannot delete default category"
                  /\ CategoriesUnchanged
     /\ initialized' =>
          \A d \in 1 .. Len(DEFAULT_CATEGORIES) :
            \E i \in 1 .. Len(categories') :
              /\ categories'[i].id = DEFAULT_CATEGORIES[d].id
              /\ categories'[i].isDefault]_vars

\* deleteCategory of a default category was refused while a created
\* category is in the list too
C19_Witness ==
  /\ outcome.op = "deleteCategory"
  /\ outcome.res = "Cannot delete default category"
  /\ Len(categories) = Len(DEFAULT_CATEGORIES) + 1
  /\ storedCategories = Stored(categories)

\* C20: after every completed category operation, successful or failed, the
\* persisted category list equals the in-memory list.
C20_PersistedEqualsInMemory ==
  outcome.op # "none" => storedCategories = Stored(categories)

\* C27: when addIOU from the add form completes with reminders enabled and
\* the notification service available, the registry holds a pending
\* notification for the new record.
C27_AddedRecordGetsReminder ==
  [][\A t \in Tasks :
       (/\ task[t].op = "add" /\ task[t].pc = "save"
        /\ task'[t].pc = "done" /\ task'[t].res = "ok"
        /\ avail /\ settings.enabled)
         => \E n \in registry' : n.iouId = task'[t].id]_vars

\* C28: a record persisted with isSettled = true is never persisted later
\* with isSettled = false.
C28_SettledIsTerminal ==
  [][\A i \in 1 .. Len(ious), j \in 1 .. Len(ious') :
       (ious[i].isSettled /\ ious'[j].id = ious[i].id)
         => ious'[j].isSettled]_vars

\* C29: every pending notification of the registry refers to a record that
\* is in the record store.
C29_PendingRefersToStoredRecord ==
  \A n \in registry : n.iouId \in Ids(ious)

\* C22: at most 3 interstitials are put on screen in one session and at most
\* 8 on one calendar day.
C22_InterstitialCaps ==
  /\ shown.session <= MAX_INTERSTITIALS_PER_SESSION
  /\ shown.day <= MAX_INTERSTITIALS_PER_DAY

\* C23: an interstitial is put on screen only when at least 5 minutes have
\* passed since the previous one was put on screen.
C23_InterstitialInterval ==
  [][(interstitialAd' = "showing" /\ interstitialAd # "showing"
      /\ shown.last # NoDate)
       => now - shown.last >= INTERSTITIAL_MIN_INTERVAL]_vars

\* C24: while the purchase flag is stored as unlocked, shouldShowAds,
\* showInterstitialAd and showRewardedAd return false, no ad is put on
\* screen and AdBanner renders no banner.
C24_AdFreeShowsNoAds ==
  [][adFreeUnlocked =>
       /\ (ShouldShowAds \/ ShowInterstitialAd \/ ShowRewardedAd)
            => ~adOutcome'.res
       /\ interstitialAd' = "showing" => interstitialAd = "showing"
       /\ rewardedAd' = "showing" => rewardedAd = "showing"
       /\ RenderAdBanner => ~bannerShown']_vars
\* C25: when the app goes to background or inactive while PIN or biometric
\* lock is enabled in the stored settings, the protected screens are no
\* longer rendered.
C25_LockedOnBackground ==
  [][(appState = "active" /\ appState' = "background" /\ LockEnabled)
       => ~Rendered(isLoading', authRequired', isAuthenticated')]_vars

\* the step is a successful authentication: verifyPin with the entered PIN
\* equal to the stored PIN, or a biometric prompt that succeeded
AuthenticationSucceeds ==
  \/ pendingPin.pending /\ pendingPin' = NoPin /\ security.pinEnabled
       /\ pendingPin.inputPin = security.pin
  \/ HandleBiometricAuth /\ security.biometricEnabled

\* C30: the protected screens come to be rendered only by a successful
\* authentication or while the stored settings have pinEnabled = false and
\* biometricEnabled = false.
C30_RenderedOnlyWhenAllowed ==
  [][(~Protected /\ Rendered(isLoading', authRequired', isAuthenticated'))
       => (AuthenticationSucceeds \/ ~LockEnabled)]_vars
\* C21: a submission whose amount is empty, not a number or not above zero,
\* or whose name is empty or blank, does not call addIOU and leaves the
\* record store as it was; every stored record has amount > 0 and a
\* non-empty personName.
C21_InvalidFormBlocked ==
  /\ (calc.done /\ calc.fn = "handleSave")
       => LET amount == ParseFloat(calc.amount)
              invalid == \/ calc.amount = <<>>
                         \/ amount.nan
                         \/ amount.value <= 0
                         \/ Trim(calc.personName) = <<>>
          IN  invalid => (~calc.addIOU /\ ious = calc.before)
  /\ \A i \in 1 .. Len(ious) :
       /\ ~ious[i].amount.nan
       /\ ious[i].amount.value > 0
       /\ ious[i].personName # <<>>

\* C26: the CSV text of n records has n + 1 lines, the header row first and
\* the i-th record's row as line i + 1.
C26_CsvOneLinePerRecord ==
  (calc.done /\ calc.fn = "generateCSVContent")
    => LET lines == Lines(calc.csv)
       IN  /\ Len(lines) = Len(calc.list) + 1
           /\ lines[1] = HeaderRow
           /\ \A i \in 1 .. Len(calc.list) :
                lines[i + 1] = CsvRow(calc.list[i])
====
